---- MODULE Spec2Model ----
(***************************************************************************)
(* The item registry of app/main.py: three HTTP handlers (GET /health,     *)
(* GET /items, POST /items) over the module-level dict items_db and the    *)
(* one-cell counter next_item_id, with the request validation declared in  *)
(* app/models.py.  Every request is a task of the server's event loop; the *)
(* handlers are coroutines without a suspension point, so a handler body   *)
(* runs from its first statement to its return before the loop resumes     *)
(* another task.  The body of create_item is modelled statement by         *)
(* statement (the labels are the line numbers of app/main.py); the calls   *)
(* it makes inside its try block may raise.                                *)
(***************************************************************************)
EXTENDS Naturals, Sequences, FiniteSets

VARIABLES
    items_db,      \* main.py:17  the dict, as the sequence of its entries in insertion order
    next_item_id,  \* main.py:19  next_item_id[0]
    tasks,         \* the requests received so far, each with its coroutine's position
    running,       \* the task whose handler body the event loop is executing, 0 when none
    returned,      \* history: the items returned by create_item, in order of return
    started        \* history: the number of create_item calls entered so far

vars == <<items_db, next_item_id, tasks, running, returned, started>>

----------------------------------------------------------------------------
(* Bounds of the model *)

\* requests received in one run of the registry
NumTasks == 3
\* POST requests received in one run of the validation specification
MaxPosts == 1

TaskIds == 1..NumTasks

----------------------------------------------------------------------------
(* JSON values of a request body, and the strings among them.  A string is  *)
(* one character repeated len times, as the tests build theirs ("a" * 101). *)

Absent == [kind |-> "absent", ch |-> "", len |-> 0]
Null == [kind |-> "null", ch |-> "", len |-> 0]
Number == [kind |-> "int", ch |-> "", len |-> 0]
Str(c, n) == [kind |-> "str", ch |-> IF n = 0 THEN "" ELSE c, len |-> n]

\* models.py:9  Field(..., min_length=1, max_length=100)
MinNameLen == 1
MaxNameLen == 100
\* models.py:10  Field(None, max_length=500)
MaxDescLen == 500

FieldError(field, type) == [loc |-> <<"body", field>>, type |-> type]

\* a faulty variant: max_length compared with >= instead of >
NameErrorsOffByOne(v) ==
    IF v.kind = "absent" THEN {FieldError("name", "missing")}
    ELSE IF v.kind # "str" THEN {FieldError("name", "string_type")}
    ELSE IF v.len < MinNameLen THEN {FieldError("name", "string_too_short")}
    ELSE IF v.len >= MaxNameLen THEN {FieldError("name", "string_too_long")}
    ELSE {}

\* ItemCreate.name: required, a str, 1 <= len <= 100
NameErrors(v) ==
    IF v.kind = "absent" THEN {FieldError("name", "missing")}
    ELSE IF v.kind # "str" THEN {FieldError("name", "string_type")}
    ELSE IF v.len < MinNameLen THEN {FieldError("name", "string_too_short")}
    ELSE IF v.len > MaxNameLen THEN {FieldError("name", "string_too_long")}
    ELSE {}

\* ItemCreate.description: str | None, default None, len <= 500
DescriptionErrors(v) ==
    IF v.kind \in {"absent", "null"} THEN {}
    ELSE IF v.kind # "str" THEN {FieldError("description", "string_type")}
    ELSE IF v.len > MaxDescLen THEN {FieldError("description", "string_too_long")}
    ELSE {}

\* the validation of a POST body against ItemCreate: one error per violating field
ValidationErrors(name, description) == NameErrors(name) \cup DescriptionErrors(description)

\* the validated model: an absent description takes the default None
ItemCreate(name, description) ==
    [name |-> name,
     description |-> IF description.kind = "absent" THEN Null ELSE description]

\* a faulty variant: the description is not copied into the item
ItemWithoutDescription(id, name, description) ==
    [id |-> id, name |-> name, description |-> Null]

\* Item(id=..., name=..., description=...)
Item(id, name, description) ==
    [id |-> id, name |-> name, description |-> description]

NoItem == [id |-> 0, name |-> Null, description |-> Null]

----------------------------------------------------------------------------
(* Responses *)

Response(code, status, detail, errors, item, items) ==
    [code |-> code, status |-> status, detail |-> detail, errors |-> errors,
     item |-> item, items |-> items]

NoResponse == Response(0, "", "", {}, NoItem, <<>>)

\* HealthResponse(status="ok"), status_code 200
HealthResponse == Response(200, "ok", "", {}, NoItem, <<>>)

\* the framework's answer to a body that fails ItemCreate
RequestValidationError(errors) == Response(422, "", "", errors, NoItem, <<>>)

\* a faulty variant: the text of the exception is put in the detail
HTTPExceptionLeaking(e) == [type |-> "HTTPException", status_code |-> 500, detail |-> e]

\* main.py:82-85  raise HTTPException(status_code=500, detail="Failed to create item")
HTTPException(e) ==
    [type |-> "HTTPException", status_code |-> 500, detail |-> "Failed to create item"]

\* main.py:88-99  the handler registered for Exception
global_exception_handler(exc) ==
    Response(500, "", "An internal error occurred", {}, NoItem, <<>>)

\* an HTTPException is rendered by the framework as {"detail": detail} with its
\* status code; anything else that leaves a handler reaches the handler above
ExceptionResponse(exc) ==
    IF exc.type = "HTTPException"
    THEN Response(exc.status_code, "", exc.detail, {}, NoItem, <<>>)
    ELSE global_exception_handler(exc)

----------------------------------------------------------------------------
(* The dict items_db *)

Keys(d) == {d[i].key : i \in 1..Len(d)}

\* d[k] = v: a new key is appended, an existing key keeps its place
DictSet(d, k, v) ==
    IF k \in Keys(d)
    THEN [i \in 1..Len(d) |-> IF d[i].key = k THEN [key |-> k, value |-> v] ELSE d[i]]
    ELSE Append(d, [key |-> k, value |-> v])

\* list(d.values())
Values(d) == [i \in 1..Len(d) |-> d[i].value]

\* d[k], for k in d
Lookup(d, k) == (CHOOSE i \in 1..Len(d) : d[i].key = k)

----------------------------------------------------------------------------
(* Requests *)

Request(op, name, description) == [op |-> op, name |-> name, description |-> description]

\* the requests of a run of the registry: the two reads, two valid bodies
\* (one without a description) and a body without a name
Requests ==
    { Request("health", Absent, Absent),
      Request("list", Absent, Absent),
      Request("create", Str("a", 1), Absent),
      Request("create", Str("b", 2), Str("d", 3)),
      Request("create", Absent, Str("d", 3)) }

\* the bodies around the limits of ItemCreate
BoundaryNames ==
    {Absent, Null, Number, Str("a", 0), Str("a", 1), Str("a", 100), Str("a", 101)}
BoundaryDescriptions ==
    {Absent, Null, Number, Str("a", 0), Str("a", 500), Str("a", 501)}
BoundaryPosts ==
    {Request("create", n, d) : n \in BoundaryNames, d \in BoundaryDescriptions}

Idle ==
    [op |-> "none", name |-> Absent, description |-> Absent, pc |-> "idle",
     item_data |-> ItemCreate(Absent, Absent), current_id |-> 0, new_item |-> NoItem,
     exc |-> "", resp |-> NoResponse,
     lo |-> 0, hi |-> 0, nok |-> 0, torn |-> FALSE, conc |-> FALSE]

\* the statements of create_item's try block
BodyPCs == {"L62", "L65", "L72", "L73", "L76", "L78", "L81"}

InBody(t) == tasks[t].pc \in BodyPCs

Received == {t \in TaskIds : tasks[t].pc # "idle"}

----------------------------------------------------------------------------
(* The event loop *)

\* a faulty variant: handlers run on threads, any task may take its next step
ScheduledOnThreads(t) == TRUE

\* the handlers are coroutines with no await in their bodies: the loop resumes
\* task t only when no other task is inside a handler body
Scheduled(t) == running = 0 \/ running = t

Init ==
    /\ items_db = <<>>
    /\ next_item_id = 1
    /\ tasks = [t \in TaskIds |-> Idle]
    /\ running = 0
    /\ returned = <<>>
    /\ started = 0

\* a request arrives: the next task is created, waiting for the loop
Receive(reqs, cap) ==
    /\ Cardinality(Received) < cap
    /\ \E r \in reqs :
         LET t == Cardinality(Received) + 1 IN
         tasks' = [tasks EXCEPT ![t] =
                     [Idle EXCEPT !.op = r.op, !.name = r.name,
                                  !.description = r.description,
                                  !.pc = "recv", !.lo = Len(returned)]]
    /\ UNCHANGED <<items_db, next_item_id, running, returned, started>>

\* main.py:22-31
health_check(t) ==
    /\ tasks[t].op = "health" /\ tasks[t].pc = "recv"
    /\ Scheduled(t)
    /\ tasks' = [tasks EXCEPT ![t].pc = "done", ![t].resp = HealthResponse]
    /\ UNCHANGED <<items_db, next_item_id, running, returned, started>>

\* a faulty variant: the entries are popped from the dict as they are listed
get_items_draining(t) ==
    /\ tasks[t].op = "list" /\ tasks[t].pc = "recv"
    /\ Scheduled(t)
    /\ tasks' = [tasks EXCEPT
                   ![t].pc = "done",
                   ![t].resp = Response(200, "", "", {}, NoItem, Values(items_db)),
                   ![t].hi = started,
                   ![t].nok = Len(returned),
                   ![t].torn = \E u \in TaskIds \ {t} : InBody(u)]
    /\ items_db' = <<>>
    /\ UNCHANGED <<next_item_id, running, returned, started>>

\* main.py:34-43
get_items(t) ==
    /\ tasks[t].op = "list" /\ tasks[t].pc = "recv"
    /\ Scheduled(t)
    /\ tasks' = [tasks EXCEPT
                   ![t].pc = "done",
                   ![t].resp = Response(200, "", "", {}, NoItem, Values(items_db)),
                   ![t].hi = started,
                   ![t].nok = Len(returned),
                   ![t].torn = \E u \in TaskIds \ {t} : InBody(u)]
    /\ UNCHANGED <<items_db, next_item_id, running, returned, started>>

\* a faulty variant: an ID is taken before the body is validated
RejectAfterAssign(t, errors) ==
    /\ tasks' = [tasks EXCEPT ![t].pc = "done",
                              ![t].resp = RequestValidationError(errors)]
    /\ next_item_id' = next_item_id + 1
    /\ UNCHANGED <<items_db, running, returned, started>>

\* the body fails ItemCreate: 422, and create_item is not called
Reject(t, errors) ==
    /\ tasks' = [tasks EXCEPT ![t].pc = "done",
                              ![t].resp = RequestValidationError(errors)]
    /\ UNCHANGED <<items_db, next_item_id, running, returned, started>>

\* main.py:46-47  the body is validated against ItemCreate, then create_item is called
Validate(t) ==
    /\ tasks[t].op = "create" /\ tasks[t].pc = "recv"
    /\ Scheduled(t)
    /\ LET errors == ValidationErrors(tasks[t].name, tasks[t].description) IN
       IF errors # {}
       THEN Reject(t, errors)
       ELSE /\ tasks' = [tasks EXCEPT
                           ![t].pc = "L62",
                           ![t].item_data = ItemCreate(tasks[t].name, tasks[t].description),
                           ![t].conc = \E u \in TaskIds \ {t} :
                                          tasks[u].op = "create" /\ tasks[u].pc \in {"recv"} \cup BodyPCs]
            /\ running' = t
            /\ started' = started + 1
            /\ UNCHANGED <<items_db, next_item_id, returned>>

\* main.py:62  current_id = next_item_id[0]
L62(t) ==
    /\ tasks[t].pc = "L62" /\ Scheduled(t)
    /\ tasks' = [tasks EXCEPT ![t].pc = "L65", ![t].current_id = next_item_id]
    /\ UNCHANGED <<items_db, next_item_id, running, returned, started>>

\* main.py:65-69  new_item = Item(...), which returns or raises
L65(t) ==
    /\ tasks[t].pc = "L65" /\ Scheduled(t)
    /\ \/ tasks' = [tasks EXCEPT
                      ![t].pc = "L72",
                      ![t].new_item = Item(tasks[t].current_id, tasks[t].item_data.name,
                                           tasks[t].item_data.description)]
       \/ tasks' = [tasks EXCEPT ![t].pc = "L81", ![t].exc = "Item() raised"]
    /\ UNCHANGED <<items_db, next_item_id, running, returned, started>>

\* main.py:72  items_db[current_id] = new_item
L72(t) ==
    /\ tasks[t].pc = "L72" /\ Scheduled(t)
    /\ items_db' = DictSet(items_db, tasks[t].current_id, tasks[t].new_item)
    /\ tasks' = [tasks EXCEPT ![t].pc = "L73"]
    /\ UNCHANGED <<next_item_id, running, returned, started>>

\* main.py:73  logger.info(...), which returns or raises
L73(t) ==
    /\ tasks[t].pc = "L73" /\ Scheduled(t)
    /\ \/ tasks' = [tasks EXCEPT ![t].pc = "L76"]
       \/ tasks' = [tasks EXCEPT ![t].pc = "L81", ![t].exc = "logger.info() raised"]
    /\ UNCHANGED <<items_db, next_item_id, running, returned, started>>

\* a faulty variant: the counter is left as it was
L76WithoutIncrement(t) ==
    /\ tasks[t].pc = "L76" /\ Scheduled(t)
    /\ tasks' = [tasks EXCEPT ![t].pc = "L78"]
    /\ UNCHANGED <<items_db, next_item_id, running, returned, started>>

\* main.py:76  next_item_id[0] += 1
L76(t) ==
    /\ tasks[t].pc = "L76" /\ Scheduled(t)
    /\ next_item_id' = next_item_id + 1
    /\ tasks' = [tasks EXCEPT ![t].pc = "L78"]
    /\ UNCHANGED <<items_db, running, returned, started>>

\* main.py:78  return new_item, status_code 201
L78(t) ==
    /\ tasks[t].pc = "L78" /\ Scheduled(t)
    /\ tasks' = [tasks EXCEPT
                   ![t].pc = "done",
                   ![t].resp = Response(201, "", "", {}, tasks[t].new_item, <<>>)]
    /\ returned' = Append(returned, tasks[t].new_item)
    /\ running' = 0
    /\ UNCHANGED <<items_db, next_item_id, started>>

\* main.py:80-85  except Exception: logger.error(...); raise HTTPException(...)
L81(t) ==
    /\ tasks[t].pc = "L81" /\ Scheduled(t)
    /\ tasks' = [tasks EXCEPT
                   ![t].pc = "done",
                   ![t].resp = ExceptionResponse(HTTPException(tasks[t].exc))]
    /\ running' = 0
    /\ UNCHANGED <<items_db, next_item_id, returned, started>>

\* main.py:60-85
create_item(t) ==
    \/ L62(t)
    \/ L65(t)
    \/ L72(t)
    \/ L73(t)
    \/ L76(t)
    \/ L78(t)
    \/ L81(t)

Next ==
    \/ Receive(Requests, NumTasks)
    \/ \E t \in TaskIds : health_check(t)
    \/ \E t \in TaskIds : get_items(t)
    \/ \E t \in TaskIds : Validate(t)
    \/ \E t \in TaskIds : create_item(t)

Spec == Init /\ [][Next]_vars

\* POST requests only, with the bodies around the limits of ItemCreate
NextPosts ==
    \/ Receive(BoundaryPosts, MaxPosts)
    \/ \E t \in TaskIds : Validate(t)
    \/ \E t \in TaskIds : create_item(t)

SpecPosts == Init /\ [][NextPosts]_vars

----------------------------------------------------------------------------
(* Properties *)

Done(t) == tasks[t].pc = "done"
Created(t) == tasks[t].op = "create" /\ Done(t) /\ tasks[t].resp.code = 201
Rejected(t) == tasks[t].op = "create" /\ Done(t) /\ tasks[t].resp.code = 422
Failed(t) == tasks[t].op = "create" /\ Done(t) /\ tasks[t].exc # ""
Listed(t) == tasks[t].op = "list" /\ Done(t)
Stored(item) ==
    /\ item.id \in Keys(items_db)
    /\ items_db[Lookup(items_db, item.id)].value = item

\* C1: the IDs returned by the successful create_item calls are 1, 2, ..., N in
\* the order of the calls, whatever health and list_items calls (and rejected or
\* failed creates) come between them.
C1_ReturnedIdsAreOneToN ==
    /\ \A k \in 1..Len(returned) : returned[k].id = k
    /\ \A t \in TaskIds : Created(t) =>
          \E k \in 1..Len(returned) : returned[k] = tasks[t].resp.item

C1_Witness ==
    /\ Len(returned) >= 2
    /\ \E t \in TaskIds : tasks[t].op \in {"health", "list"} /\ Done(t)

\* C2: a list_items call returns exactly the items returned by the successful
\* create_item calls completed before it, in creation order, with status 200:
\* N items after N successful creates, none on the empty registry.
C2_ListReturnsTheCreatedItems ==
    \A t \in TaskIds : Listed(t) =>
        /\ tasks[t].resp.code = 200
        /\ tasks[t].resp.items = SubSeq(returned, 1, tasks[t].nok)

ValidBody(name, description) ==
    /\ name.kind = "str" /\ name.len >= 1 /\ name.len <= 100
    /\ \/ description.kind \in {"absent", "null"}
       \/ description.kind = "str" /\ description.len <= 500

\* C4: a POST /items request is rejected with 422 exactly when its body is not
\* acceptable (name a string of 1..100 characters, description absent, null or a
\* string of at most 500); create_item is called exactly for the acceptable
\* bodies, and answers 201 whenever it returns.
C4_AcceptedIffValid ==
    \A t \in TaskIds :
        LET ok == ValidBody(tasks[t].name, tasks[t].description) IN
        /\ (tasks[t].op = "create" /\ Done(t)) =>
              /\ (tasks[t].resp.code = 422) <=> ~ok
              /\ (tasks[t].resp.code = 201) => ok
              /\ (ok /\ tasks[t].exc = "") => tasks[t].resp.code = 201
              /\ tasks[t].resp.code = 422 => tasks[t].resp.errors # {}
        /\ InBody(t) => ok

C4_Witness ==
    \E t \in TaskIds :
        /\ Created(t)
        /\ tasks[t].name = Str("a", 100)
        /\ tasks[t].description = Str("a", 500)

\* C5: a create_item request that fails validation changes neither the item map
\* nor the counter, and consumes no ID: between handler runs the counter is one
\* more than the number of successful creates, however many requests were
\* rejected.
C5_RejectedRequestLeavesRegistryUnchanged ==
    /\ [](running = 0 => next_item_id = Len(returned) + 1)
    /\ [][\A t \in TaskIds :
            (tasks[t].op = "create" /\ tasks[t].pc = "recv" /\ tasks'[t].pc = "done")
                => /\ tasks'[t].resp.code = 422
                   /\ items_db' = items_db
                   /\ next_item_id' = next_item_id]_vars

C5_Witness ==
    \E t, u \in TaskIds :
        /\ t < u /\ Rejected(t) /\ Created(u)
        /\ tasks[u].resp.item.id = 1

C7_CreatedItemEchoesRequest ==
    \A t \in TaskIds : Created(t) =>
        /\ tasks[t].resp.item.name = tasks[t].name
        /\ tasks[t].resp.item.description =
              (IF tasks[t].description = Absent THEN Null ELSE tasks[t].description)
        /\ tasks[t].resp.item.id >= 1
        /\ Stored(tasks[t].resp.item)

C7_Witness ==
    \E t, u \in TaskIds :
        /\ Created(t) /\ tasks[t].description = Absent
        /\ Created(u) /\ tasks[u].description = Str("d", 3)

\* C8: health answers 200 with status "ok" in every registry state, and neither
\* health nor list_items changes the item map or the counter.
C8_ReadsAreReadOnly ==
    /\ [](\A t \in TaskIds : (tasks[t].op = "health" /\ Done(t)) =>
              /\ tasks[t].resp.code = 200
              /\ tasks[t].resp.status = "ok")
    /\ [][\A t \in TaskIds :
            (tasks[t].op \in {"health", "list"} /\ tasks[t].pc = "recv"
                 /\ tasks'[t].pc = "done")
                => /\ items_db' = items_db
                   /\ next_item_id' = next_item_id]_vars

C8_Witness ==
    /\ Len(items_db) >= 1
    /\ \E t \in TaskIds : tasks[t].op = "health" /\ Done(t)
    /\ \E t \in TaskIds : Listed(t) /\ Len(tasks[t].resp.items) >= 1

\* C9: a list_items call that runs among create_item calls returns the items
\* with IDs 1..k, in order and whole, for a k that is at least the number of
\* creates that had succeeded when the request arrived and at most the number
\* of create_item calls entered when it was answered; it never reads the map
\* while a create_item call is between its first statement and its return.
C9_ListIsAConsistentSnapshot ==
    \A t \in TaskIds : Listed(t) =>
        LET items == tasks[t].resp.items IN
        /\ \A j \in 1..Len(items) :
              /\ items[j].id = j
              /\ items[j].name.kind = "str"
        /\ tasks[t].lo <= Len(items)
        /\ Len(items) <= tasks[t].hi
        /\ ~tasks[t].torn

C9_Witness ==
    \E t \in TaskIds :
        /\ Listed(t)
        /\ tasks[t].lo < Len(tasks[t].resp.items)
        /\ \E u \in TaskIds : u > t /\ Created(u)

\* C10: between requests the stored IDs are exactly 1 .. next_item_id - 1 and
\* every stored item's id is its key, also after a create_item call that ended
\* in a 500.
C10_StoredIdsMatchCounter ==
    running = 0 =>
        /\ Keys(items_db) = 1..(next_item_id - 1)
        /\ \A i \in 1..Len(items_db) : items_db[i].value.id = items_db[i].key

====
